---------------------------- MODULE Spec2Model ----------------------------
(***************************************************************************)
(* Model of the Bandirma earthquake monitor: the SQLite event store of     *)
(* main.py (init_db, upsert_events), the retention operation of the        *)
(* specification, and the alarm evaluators of turkiye_alarm.py and         *)
(* main.py.                                                                *)
(*                                                                         *)
(* Units: times are whole hours on one clock, magnitudes and depths are    *)
(* tenths (66 is 6.6), coordinates are hundredths of a degree (4035 is     *)
(* 40.35), distances are whole kilometres.                                 *)
(***************************************************************************)
EXTENDS Integers, Sequences, FiniteSets

VARIABLES
    cols,     \* column names of table earthquakes; {} when the table is absent
    rows,     \* the table's rows, in id order
    uq,       \* whether the unique index uq_quake exists
    lastOp,   \* the operation that ran last
    ret,      \* what the last upsert_events / enforce_capacity returned
    cap,      \* the limit of the last enforce_capacity call
    quakes,   \* alarm specifications: the stored events, as a multiset
    tr,       \* result of the last turkey_cluster_alert
    ba,       \* result of the last bandirma_alert
    al,       \* result of the last compute_alarm_status
    feed,     \* feed specifications: the page last fetched
    parsed,   \* feed specifications: what parse_koeri_lst6 made of them
    sent      \* what the last run of main() did about its message

vars == <<cols, rows, uq, lastOp, ret, cap, quakes, tr, ba, al, feed, parsed,
          sent>>

---------------------------------------------------------------------------
(* Values *)

\* Python None, and SQL NULL (sqlite3 binds None as NULL and reads NULL as None).
None == -9999
\* float("nan"): what float() makes of the token "nan".
NaN == -8888
\* A value float() raises on (a non-numeric string).
BadNum == -7777
\* location None / NULL (locations are strings).
LocNone == "<None>"

\* The reading of the clock, utcnow() / datetime.now(timezone.utc).
utcnow == 2400

\* Coordinates: near the Bandirma centre, between the two radii, far away.
PIn == [latitude |-> 4035, longitude |-> 2797]
PMid == [latitude |-> 4035, longitude |-> 2897]
PFar == [latitude |-> 3900, longitude |-> 3000]

\* haversine_km from the Bandirma centre (40.3522, 27.9767), rounded to km,
\* for the coordinates of the model; NULL or non-finite coordinates never
\* reach it (columns are NOT NULL).
haversine_km(lat, lon) ==
    CASE lat = 4035 /\ lon = 2797 -> 1
      [] lat = 4035 /\ lon = 2897 -> 84
      [] lat = 3900 /\ lon = 3000 -> 229
      [] OTHER -> 9999

---------------------------------------------------------------------------
(* The store: main.py *)

FreshCols == {"id", "event_time", "latitude", "longitude", "depth_km",
              "magnitude", "location"}
\* The schema kontrol.py and turkiye_alarm.py read: depth, not depth_km.
LegacyCols == {"id", "event_time", "latitude", "longitude", "depth",
               "magnitude", "location"}

\* `v or 0.0`
OrZero(v) == IF v = None \/ v = 0 THEN 0 ELSE v
\* `v or "-"`
OrDash(l) == IF l = LocNone \/ l = "" THEN "-" ELSE l
\* float(v) raises on None and on a non-numeric string.
FloatRaises(v) == v = None \/ v = BadNum
\* sqlite3 stores a NaN parameter as NULL.
Bind(v) == IF v = NaN THEN None ELSE v

\* The parameter tuple of the INSERT, as the row it would become.
InsertParams(e) ==
    [event_time |-> e.event_time,
     latitude   |-> Bind(e.latitude),
     longitude  |-> Bind(e.longitude),
     depth_km   |-> Bind(OrZero(e.depth_km)),
     magnitude  |-> Bind(OrZero(e.magnitude)),
     location   |-> OrDash(e.location),
     depth      |-> None]

\* Building the parameter tuple raises: e[...] of a key the event lacks, or
\* float() of what is no number.
ParamsRaise(e) ==
    \/ ~({"event_time", "latitude", "longitude"} \subseteq DOMAIN e)
    \/ FloatRaises(e.latitude)
    \/ FloatRaises(e.longitude)
    \/ FloatRaises(OrZero(e.depth_km))
    \/ FloatRaises(OrZero(e.magnitude))

\* Two rows collide in uq_quake: every indexed column equal, and none NULL
\* (a UNIQUE index holds NULLs as distinct values).
UqConflict(r, p) ==
    /\ r.event_time = p.event_time /\ r.event_time # None
    /\ r.latitude = p.latitude /\ r.latitude # None
    /\ r.longitude = p.longitude /\ r.longitude # None
    /\ r.magnitude = p.magnitude /\ r.magnitude # None
    /\ r.depth_km = p.depth_km /\ r.depth_km # None
    /\ r.location = p.location /\ r.location # LocNone

\* Variant: every statement that does not raise counts as an insertion.
InsertOrIgnore_CountsIgnored(c, u, rs, e) ==
    IF ~(FreshCols \subseteq c) \/ ParamsRaise(e)
    THEN [rows |-> rs, rowcount |-> 0]
    ELSE LET p == InsertParams(e) IN
         IF \/ p.event_time = None \/ p.latitude = None \/ p.longitude = None
            \/ (u /\ \E i \in DOMAIN rs : UqConflict(rs[i], p))
         THEN [rows |-> rs, rowcount |-> 1]
         ELSE [rows |-> Append(rs, p), rowcount |-> 1]

\* One pass of the loop body: INSERT OR IGNORE of one event. The statement
\* raises (and the except skips the event) when the table or a named column
\* is missing; OR IGNORE skips a NOT NULL or UNIQUE violation, rowcount 0.
InsertOrIgnore(c, u, rs, e) ==
    IF ~(FreshCols \subseteq c) \/ ParamsRaise(e)
    THEN [rows |-> rs, rowcount |-> 0]
    ELSE LET p == InsertParams(e) IN
         IF \/ p.event_time = None \/ p.latitude = None \/ p.longitude = None
            \/ (u /\ \E i \in DOMAIN rs : UqConflict(rs[i], p))
         THEN [rows |-> rs, rowcount |-> 0]
         ELSE [rows |-> Append(rs, p), rowcount |-> 1]

RECURSIVE UpsertLoop(_, _, _, _, _)
UpsertLoop(c, u, rs, events, inserted) ==
    IF events = <<>>
    THEN [rows |-> rs, inserted |-> inserted]
    ELSE LET r == InsertOrIgnore(c, u, rs, Head(events)) IN
         UpsertLoop(c, u, r.rows, Tail(events), inserted + r.rowcount)

upsert_events(c, u, rs, events) == UpsertLoop(c, u, rs, events, 0)

IfNull(v, d) == IF v = None THEN d ELSE v
IfNullLoc(l) == IF l = LocNone THEN "-" ELSE l

\* The GROUP BY key of init_db's DELETE.
GroupKey(r) ==
    <<r.event_time, r.latitude, r.longitude, IfNull(r.magnitude, 0),
      IfNull(r.depth_km, 0), IfNullLoc(r.location)>>

\* DELETE ... WHERE id NOT IN (SELECT MIN(id) ... GROUP BY ...): of each
\* group the row of least id stays.
RECURSIVE DeleteDuplicates(_, _)
DeleteDuplicates(rs, kept) ==
    IF rs = <<>> THEN kept
    ELSE IF \E i \in DOMAIN kept : GroupKey(kept[i]) = GroupKey(Head(rs))
         THEN DeleteDuplicates(Tail(rs), kept)
         ELSE DeleteDuplicates(Tail(rs), Append(kept, Head(rs)))

\* The schema steps of init_db: CREATE TABLE, or the ALTER TABLEs with the
\* copy of depth into a new depth_km.
Migrate(c, rs) ==
    IF c = {} THEN [cols |-> FreshCols, rows |-> <<>>]
    ELSE LET rs1 == IF "depth_km" \in c THEN rs
                    ELSE [i \in DOMAIN rs |->
                            [rs[i] EXCEPT !.depth_km =
                                IF "depth" \in c THEN rs[i].depth ELSE None]]
         IN [cols |-> c \cup {"depth_km", "magnitude", "location"},
             rows |-> rs1]

init_db(c, rs) ==
    LET m == Migrate(c, rs) IN
    [cols |-> m.cols, rows |-> DeleteDuplicates(m.rows, <<>>), uq |-> TRUE]


---------------------------------------------------------------------------
(* The retention operation of the specification (section 4.3) *)

\* Variant: the row stored first goes first, whatever its event_time.
OldestIndex_ByRowid(rs) == 1

\* Index of the row to evict first: the oldest event_time, and of equal
\* event_times the row of least id.
OldestIndex(rs) ==
    CHOOSE i \in DOMAIN rs :
        \A j \in DOMAIN rs :
            \/ rs[i].event_time < rs[j].event_time
            \/ (rs[i].event_time = rs[j].event_time /\ i <= j)

RemoveAt(rs, i) == SubSeq(rs, 1, i - 1) \o SubSeq(rs, i + 1, Len(rs))

RECURSIVE EvictOldest(_, _)
EvictOldest(rs, n) ==
    IF n <= 0 \/ rs = <<>> THEN rs
    ELSE EvictOldest(RemoveAt(rs, OldestIndex(rs)), n - 1)

\* enforce_capacity(max_rows) -> count deleted
enforce_capacity(rs, max_rows) ==
    LET excess == IF Len(rs) > max_rows THEN Len(rs) - max_rows ELSE 0 IN
    [rows |-> EvictOldest(rs, excess), deleted |-> excess]

---------------------------------------------------------------------------
(* Multisets of evaluator rows: a function from rows to their counts *)

RECURSIVE SumOver(_, _)
SumOver(S, f) ==
    IF S = {} THEN 0
    ELSE LET x == CHOOSE y \in S : TRUE IN f[x] + SumOver(S \ {x}, f)

\* sum(1 for x in B if x in S)
CountIn(B, S) == SumOver(S \cap DOMAIN B, B)

Present(B) == {x \in DOMAIN B : B[x] > 0}

Max(a, b) == IF a >= b THEN a ELSE b

\* max([...], default=0.0) over the magnitudes of S
MaxMag(S) ==
    IF S = {} THEN 0
    ELSE CHOOSE m \in {x.magnitude : x \in S} :
            \A x \in S : x.magnitude <= m

---------------------------------------------------------------------------
(* turkiye_alarm.py *)

BANDIRMA_RADIUS_KM == 70

\* A table row as get_rows_since hands it on (dt, latitude, longitude,
\* magnitude; depth, location and source decide nothing).
RowDict(r) ==
    [dt |-> r.event_time, latitude |-> r.latitude,
     longitude |-> r.longitude, magnitude |-> r.magnitude]

\* The SELECT of get_rows_since names the column depth.
GetRowsRaises(c) ==
    ~({"event_time", "latitude", "longitude", "depth", "magnitude",
       "location"} \subseteq c)

\* get_rows_since(days) over the table's rows, as a multiset.
get_rows_since(rs, days) ==
    LET since == utcnow - 24 * days
        sel == {i \in DOMAIN rs : rs[i].event_time >= since}
        dom == {RowDict(rs[i]) : i \in sel}
    IN [x \in dom |-> Cardinality({i \in sel : RowDict(rs[i]) = x})]

\* The rows of a multiset dated since `days` days ago.
RowsSince(B, days) ==
    LET dom == {x \in Present(B) : x.dt >= utcnow - 24 * days}
    IN [x \in dom |-> B[x]]

\* Variant: a row dated exactly at the start of the window is left out.
InWindow_Strict(dt, now, hours) == dt > now - hours

\* x["dt"] >= now - timedelta(...): the row lies in the window of `hours`.
InWindow(dt, now, hours) == dt >= now - hours

\* Variant: a magnitude equal to the threshold does not count.
MagAtLeast_Strict(x, m) == x.magnitude # None /\ x.magnitude > m

\* x["magnitude"] is not None and x["magnitude"] >= m
MagAtLeast(x, m) == x.magnitude # None /\ x.magnitude >= m

\* Variant: the orange reasons are looked at first.
StatusOf_OrangeFirst(red_reasons, orange_reasons) ==
    IF orange_reasons # <<>> THEN "TURUNCU"
    ELSE IF red_reasons # <<>> THEN "KIRMIZI"
    ELSE "YOK"

StatusOf(red_reasons, orange_reasons) ==
    IF red_reasons # <<>> THEN "KIRMIZI"
    ELSE IF orange_reasons # <<>> THEN "TURUNCU"
    ELSE "YOK"

turkey_cluster_alert(rows_30d) ==
    LET now == utcnow
        all == DOMAIN rows_30d
        r24 == {x \in all : InWindow(x.dt, now, 24)}
        r7 == {x \in all : InWindow(x.dt, now, 24 * 7)}
        r30 == all
        AtLeast(S, m) == {x \in S : MagAtLeast(x, m)}
        m3_24 == CountIn(rows_30d, AtLeast(r24, 30))
        max_24 == MaxMag({x \in r24 : x.magnitude # None /\ rows_30d[x] > 0})
        m3_7 == CountIn(rows_30d, AtLeast(r7, 30))
        m4_7 == CountIn(rows_30d, AtLeast(r7, 40))
        m5_30 == CountIn(rows_30d, AtLeast(r30, 50))
        m65_7 == CountIn(rows_30d, AtLeast(r7, 65))
        m58_30 == CountIn(rows_30d, AtLeast(r30, 58))
        m4_24 == CountIn(rows_30d, AtLeast(r24, 40))
        orange_reasons ==
            (IF m3_24 >= 40 /\ max_24 >= 40
                THEN <<"24s: M>=3.0 ve maxMag(24s)">> ELSE <<>>)
            \o (IF m3_7 >= 25 /\ m4_7 >= 2
                   THEN <<"7g: M>=3.0 ve M>=4.0">> ELSE <<>>)
            \o (IF m5_30 >= 1 THEN <<"30g: M>=5.0">> ELSE <<>>)
        red_reasons ==
            (IF m65_7 >= 1 THEN <<"7g: M>=6.5">> ELSE <<>>)
            \o (IF m58_30 >= 2 THEN <<"30g: M>=5.8">> ELSE <<>>)
            \o (IF m4_24 >= 10 THEN <<"24s: M>=4.0">> ELSE <<>>)
    IN [status |-> StatusOf(red_reasons, orange_reasons),
        orange_reasons |-> orange_reasons,
        red_reasons |-> red_reasons,
        stats |-> [m3_24 |-> m3_24, max_24 |-> max_24, m3_7 |-> m3_7,
                   m4_7 |-> m4_7, m5_30 |-> m5_30, m65_7 |-> m65_7,
                   m58_30 |-> m58_30, m4_24 |-> m4_24]]

bandirma_alert(rows_30d, radius_km) ==
    LET now == utcnow
        r30 == DOMAIN rows_30d
        r14 == {x \in r30 : InWindow(x.dt, now, 24 * 14)}
        in_radius(x) == haversine_km(x.latitude, x.longitude) <= radius_km
        r30_in == {x \in r30 : in_radius(x)}
        r14_in == {x \in r14 : in_radius(x)}
        orange_hits ==
            CountIn(rows_30d,
                    {x \in r30_in : MagAtLeast(x, 50)})
        red_hits ==
            CountIn(rows_30d,
                    {x \in r14_in : MagAtLeast(x, 55)})
    IN [status |-> IF red_hits > 0 THEN "KIRMIZI"
                   ELSE IF orange_hits > 0 THEN "TURUNCU" ELSE "YOK",
        stats |-> [count_30_in |-> CountIn(rows_30d, r30_in),
                   count_14_in |-> CountIn(rows_30d, r14_in),
                   orange_hits |-> orange_hits,
                   red_hits |-> red_hits]]

\* build_message / get_alert_summary: (tr_status, b_status) of the message.
get_alert_summary(rows_30d) ==
    [tr |-> turkey_cluster_alert(rows_30d),
     ba |-> bandirma_alert(rows_30d, BANDIRMA_RADIUS_KM)]

---------------------------------------------------------------------------
(* main.py: the combined-score alarm *)

MAIN_BANDIRMA_RADIUS_KM == 100
\* Thresholds of the combined score, in tenths.
ALARM_ORANGE_THRESHOLD == 60
ALARM_RED_THRESHOLD == 100
ORANGE_QUICK_MAG == 45
RED_QUICK_MAG == 50
QUICK_HOURS == 24

\* The SELECT of fetch_bandirma_events_for_window names depth_km.
FetchRaises(c) ==
    ~({"event_time", "latitude", "longitude", "depth_km", "magnitude",
       "location"} \subseteq c)

\* float(mag or 0.0)
MagOrZero(m) == IF m = None THEN 0 ELSE m

\* fetch_bandirma_events_for_window(days): the rows dated since `days` days
\* ago that lie within the radius.
fetch_bandirma_events_for_window(B, days) ==
    {x \in Present(B) :
        /\ x.dt >= utcnow - 24 * days
        /\ haversine_km(x.latitude, x.longitude) <= MAIN_BANDIRMA_RADIUS_KM}

\* event_weight, in tenths.
event_weight(mag) ==
    IF mag <= 0 THEN 0 ELSE 10 + Max(mag - 15, 0)

\* 1 / sqrt(w), in ten-thousandths, for the windows of compute_alarm_status.
InvSqrt(w) ==
    CASE w = 90 -> 1054
      [] w = 30 -> 1826
      [] w = 7 -> 3780
      [] w = 1 -> 10000

Windows == {90, 30, 7, 1}

\* max(1, ceil(QUICK_HOURS / 24.0))
QuickDays == Max(1, (QUICK_HOURS + 23) \div 24)

\* Variant: the ORANGE threshold is tested first.
QuickTrigger_OrangeFirst(max_mag_quick) ==
    IF max_mag_quick >= ORANGE_QUICK_MAG THEN "ORANGE"
    ELSE IF max_mag_quick >= RED_QUICK_MAG THEN "RED"
    ELSE "None"

QuickTrigger(max_mag_quick) ==
    IF max_mag_quick >= RED_QUICK_MAG THEN "RED"
    ELSE IF max_mag_quick >= ORANGE_QUICK_MAG THEN "ORANGE"
    ELSE "None"

\* Variant: an ORANGE quick trigger sets the level whatever the score gave.
LevelOf_QuickOrangeOverrides(combined_score, quick_trigger) ==
    LET level == IF combined_score >= ALARM_RED_THRESHOLD * 10000
                 THEN "RED"
                 ELSE IF combined_score >= ALARM_ORANGE_THRESHOLD * 10000
                      THEN "ORANGE" ELSE "NORMAL"
    IN IF quick_trigger = "RED" THEN "RED"
       ELSE IF quick_trigger = "ORANGE" THEN "ORANGE"
       ELSE level

\* The level of the combined score (units of 1e-5), raised by the quick
\* trigger.
LevelOf(combined_score, quick_trigger) ==
    LET level == IF combined_score >= ALARM_RED_THRESHOLD * 10000
                 THEN "RED"
                 ELSE IF combined_score >= ALARM_ORANGE_THRESHOLD * 10000
                      THEN "ORANGE" ELSE "NORMAL"
    IN IF quick_trigger = "RED" THEN "RED"
       ELSE IF quick_trigger = "ORANGE" /\ level # "RED" THEN "ORANGE"
       ELSE level

compute_alarm_status(B) ==
    LET recent == fetch_bandirma_events_for_window(B, QuickDays)
        cutoff == utcnow - QUICK_HOURS
        recent_in_hours == {x \in recent : x.dt >= cutoff}
        max_mag_quick ==
            MaxMag({[magnitude |-> MagOrZero(x.magnitude)] :
                        x \in recent_in_hours})
        quick_trigger == QuickTrigger(max_mag_quick)
        total_w(w) ==
            LET evs == fetch_bandirma_events_for_window(B, w) IN
            SumOver(evs, [x \in evs |->
                            B[x] * event_weight(MagOrZero(x.magnitude))])
        scores == [w \in Windows |-> total_w(w) * InvSqrt(w)]
        combined_score == SumOver(Windows, scores)
    IN [level |-> LevelOf(combined_score, quick_trigger),
        combined_score |-> combined_score,
        max_mag_quick |-> max_mag_quick,
        quick_trigger |-> quick_trigger]

---------------------------------------------------------------------------
(* The store's specification *)

MaxBatch == 2
MaxRows == 3

\* Event times of the store's feed: two hours ago, and 33 days ago.
TNew == utcnow - 2
TOld == utcnow - 24 * 33

Quake(t, p, d, m, l) ==
    [event_time |-> t, latitude |-> p.latitude, longitude |-> p.longitude,
     depth_km |-> d, magnitude |-> m, location |-> l]

\* A quake; the same record with no depth, with a revised magnitude, with a
\* depth token "nan", and with a latitude that is no number; and an older
\* quake with neither magnitude nor location.
EvA == Quake(TNew, PIn, 0, 30, "A")
EvNoDepth == Quake(TNew, PIn, None, 30, "A")
EvRevised == Quake(TNew, PIn, 0, 66, "A")
EvNaNDepth == Quake(TNew, PIn, NaN, 30, "A")
EvBadLat == [EvA EXCEPT !.latitude = BadNum]
EvOld == Quake(TOld, PFar, 70, None, LocNone)

StoreEvents == {EvA, EvNoDepth, EvRevised, EvNaNDepth, EvBadLat, EvOld}

SeqsUpTo(S, n) == UNION {[1..k -> S] : k \in 0..n}

Batches == SeqsUpTo(StoreEvents, MaxBatch)

\* A row of the legacy table: depth, and no depth_km yet.
LegacyRow ==
    [event_time |-> TNew, latitude |-> PIn.latitude,
     longitude |-> PIn.longitude, depth_km |-> None, magnitude |-> 66,
     location |-> "A", depth |-> 70]

NoResult == [status |-> "none"]
NoLevel == [level |-> "none"]
Raised == [status |-> "raised"]
RaisedLevel == [level |-> "raised"]
NoQuakes == [x \in {} |-> 0]

\* No page fetched yet.
NoPage == [pre |-> FALSE, raw_lines |-> <<>>]

\* No run of main() yet, or a step that is none.
NoMessage == [sent |-> FALSE, force |-> FALSE, always |-> FALSE,
              level |-> "none"]

\* The end of main(): telegram_send(build_message(inserted)) when the run
\* inserted a row or one of the two flags is set. The message carries the
\* level compute_alarm_status gives the store B.
Notify(inserted, FORCE_TELEGRAM, ALWAYS_TELEGRAM, B) ==
    IF inserted > 0 \/ FORCE_TELEGRAM \/ ALWAYS_TELEGRAM
    THEN [sent |-> TRUE, force |-> FORCE_TELEGRAM, always |-> ALWAYS_TELEGRAM,
          level |-> compute_alarm_status(B).level]
    ELSE [sent |-> FALSE, force |-> FORCE_TELEGRAM,
          always |-> ALWAYS_TELEGRAM, level |-> "none"]

InitRest ==
    /\ lastOp = "none" /\ ret = 0 /\ cap = 0
    /\ quakes = NoQuakes
    /\ tr = NoResult /\ ba = NoResult /\ al = NoLevel
    /\ feed = NoPage /\ parsed = <<>> /\ sent = NoMessage

\* No database file yet, or the table of an earlier version of the program
\* (empty, or with a record stored twice).
Init ==
    /\ \/ cols = {} /\ rows = <<>>
       \/ cols = LegacyCols /\ rows \in {<<>>, <<LegacyRow, LegacyRow>>}
    /\ uq = FALSE
    /\ InitRest

InitDb ==
    LET d == init_db(cols, rows) IN
    /\ cols' = d.cols /\ rows' = d.rows /\ uq' = d.uq
    /\ lastOp' = "init_db" /\ ret' = 0
    /\ tr' = NoResult /\ ba' = NoResult /\ al' = NoLevel
    /\ sent' = NoMessage
    /\ UNCHANGED <<cap, quakes, feed, parsed>>

Upsert(events) ==
    LET u == upsert_events(cols, uq, rows, events) IN
    /\ Len(u.rows) <= MaxRows
    /\ rows' = u.rows /\ ret' = u.inserted
    /\ lastOp' = "upsert"
    /\ tr' = NoResult /\ ba' = NoResult /\ al' = NoLevel
    /\ sent' = NoMessage
    /\ UNCHANGED <<cols, uq, cap, quakes, feed, parsed>>

\* main(): init_db, then upsert_events of what parse_koeri_lst6 returned,
\* then the message.
Main(events) ==
    LET d == init_db(cols, rows)
        u == upsert_events(d.cols, d.uq, d.rows, events)
    IN /\ Len(u.rows) <= MaxRows
       /\ cols' = d.cols /\ uq' = d.uq
       /\ rows' = u.rows /\ ret' = u.inserted
       /\ lastOp' = "main"
       /\ tr' = NoResult /\ ba' = NoResult /\ al' = NoLevel
       /\ \E FORCE_TELEGRAM, ALWAYS_TELEGRAM \in BOOLEAN :
             sent' = Notify(u.inserted, FORCE_TELEGRAM, ALWAYS_TELEGRAM,
                            get_rows_since(u.rows, 90))
       /\ UNCHANGED <<cap, quakes, feed, parsed>>

\* An evaluation run over the store: turkiye_alarm.get_alert_summary and
\* main.compute_alarm_status.
Evaluate ==
    LET rows_30d == get_rows_since(rows, 30)
        s == get_alert_summary(rows_30d)
        db == get_rows_since(rows, 90)
    IN /\ tr' = IF GetRowsRaises(cols) THEN Raised ELSE s.tr
       /\ ba' = IF GetRowsRaises(cols) THEN Raised ELSE s.ba
       /\ al' = IF FetchRaises(cols) THEN RaisedLevel
                ELSE compute_alarm_status(db)
       /\ lastOp' = "evaluate" /\ ret' = 0
       /\ sent' = NoMessage
       /\ UNCHANGED <<cols, rows, uq, cap, quakes, feed, parsed>>

Next ==
    \/ InitDb
    \/ \E events \in Batches : Upsert(events)
    \/ \E events \in Batches : Main(events)
    \/ Evaluate

Spec == Init /\ [][Next]_vars

---------------------------------------------------------------------------
(* Claims about the store *)

\* The dedup key of a row: the columns of uq_quake.
RowKey(r) ==
    <<r.event_time, r.latitude, r.longitude, r.magnitude, r.depth_km,
      r.location>>

\* The event reaches the INSERT and passes its NOT NULL constraints.
Storable(e) ==
    /\ ~ParamsRaise(e)
    /\ InsertParams(e).event_time # None
    /\ InsertParams(e).latitude # None
    /\ InsertParams(e).longitude # None

\* The keys of a batch the store does not hold yet.
NewKeys(rs, events) ==
    {RowKey(InsertParams(events[i])) :
        i \in {k \in DOMAIN events : Storable(events[k])}}
    \ {RowKey(rs[j]) : j \in DOMAIN rs}

\* C1: in every store state, for every batch E, upsert_events(E) followed by
\* upsert_events(E) returns 0 the second time and leaves the rows as the
\* first call left them.
C1_IdempotentUpsert ==
    \A events \in Batches :
        LET first == upsert_events(cols, uq, rows, events)
            second == upsert_events(cols, uq, first.rows, events)
        IN second.inserted = 0 /\ second.rows = first.rows

\* C2: the integer upsert_events returns is the number of rows the store
\* grew by, and in an initialised store it is the number of distinct keys
\* of the batch the store did not hold (a record twice in a batch counts
\* once); a second run of the pipeline on the same feed returns 0.
C2_ReturnCountsNewKeys ==
    \A events \in Batches :
        LET u == upsert_events(cols, uq, rows, events)
            d1 == init_db(cols, rows)
            run1 == upsert_events(d1.cols, d1.uq, d1.rows, events)
            d2 == init_db(d1.cols, run1.rows)
            run2 == upsert_events(d2.cols, d2.uq, d2.rows, events)
        IN /\ u.inserted = Len(u.rows) - Len(rows)
           /\ uq => u.inserted = Cardinality(NewKeys(rows, events))
           /\ run2.inserted = 0

\* C3: once init_db has built uq_quake, no two stored rows have the same
\* dedup key.
C3_UniqueKeys ==
    uq => \A i, j \in DOMAIN rows : i # j => RowKey(rows[i]) # RowKey(rows[j])

\* C5: in a store that init_db created and only upsert_events wrote, every
\* step of init_db, upsert_events or main keeps every stored row, all fields
\* unchanged.
C5_RowsKept ==
    [][cols = FreshCols =>
        \A i \in DOMAIN rows : \E j \in DOMAIN rows' : rows'[j] = rows[i]]_vars

Statuses == {"YOK", "TURUNCU", "KIRMIZI"}
Levels == {"NORMAL", "ORANGE", "RED"}

\* C6: over a store that init_db created, an evaluation run returns a status
\* for each region without raising, the no-alarm status over the empty store.
C6_EvaluationCompletes ==
    (lastOp = "evaluate" /\ cols = FreshCols) =>
        /\ tr.status \in Statuses
        /\ ba.status \in Statuses
        /\ al.level \in Levels
        /\ rows = <<>> =>
            (tr.status = "YOK" /\ ba.status = "YOK" /\ al.level = "NORMAL")

---------------------------------------------------------------------------
(* The specification of bounded storage: ingestion runs with retention *)

MaxCapTime == 8
MaxCap == 5

CapQuake(t, m) == Quake(t, PIn, 0, m, "A")

\* A feed lists its newest record first: the records of hours hi down to lo.
FeedOf(hi, lo) == [i \in 1..(hi - lo + 1) |-> CapQuake(hi + 1 - i, 30)]

MaxFeedLen == 2

\* The feeds: the records of up to MaxFeedLen consecutive hours, or one more
\* record of an hour (another magnitude, an equal event_time).
CapFeeds ==
    UNION {{FeedOf(hi, lo) : lo \in {l \in 1..hi : hi - l < MaxFeedLen}} :
              hi \in 1..MaxCapTime}
    \cup {<<CapQuake(MaxCapTime \div 2, 31)>>}

\* The feed moves on: its newest record is at most an hour older than the
\* newest stored.
FeedIsCurrent(rs, events) ==
    \A i \in DOMAIN rs : rs[i].event_time <= events[1].event_time + 1

InitCap ==
    /\ cols = FreshCols /\ rows = <<>> /\ uq = TRUE
    /\ InitRest

CapUpsert(events) ==
    LET u == upsert_events(cols, uq, rows, events) IN
    /\ FeedIsCurrent(rows, events)
    /\ rows' = u.rows /\ ret' = u.inserted
    /\ lastOp' = "upsert" /\ cap' = 0
    /\ UNCHANGED <<cols, uq, quakes, tr, ba, al, feed, parsed, sent>>

EnforceCapacity(max_rows) ==
    LET c == enforce_capacity(rows, max_rows) IN
    /\ rows' = c.rows /\ ret' = c.deleted
    /\ lastOp' = "enforce_capacity" /\ cap' = max_rows
    /\ UNCHANGED <<cols, uq, quakes, tr, ba, al, feed, parsed, sent>>

NextCap ==
    \/ \E events \in CapFeeds : CapUpsert(events)
    \/ \E max_rows \in 0..MaxCap : EnforceCapacity(max_rows)

SpecCap == InitCap /\ [][NextCap]_vars

Min(a, b) == IF a <= b THEN a ELSE b

\* C4: a step of enforce_capacity(N) leaves min(N, count) rows, all of them
\* rows of before, none older than a row it deleted, and returns the number
\* it deleted.
C4_BoundedStorage ==
    [][lastOp' = "enforce_capacity" =>
        /\ Len(rows') <= cap'
        /\ Len(rows') = Min(Len(rows), cap')
        /\ ret' = Len(rows) - Len(rows')
        /\ \A j \in DOMAIN rows' : \E i \in DOMAIN rows : rows[i] = rows'[j]
        /\ \A i \in DOMAIN rows :
              (\A j \in DOMAIN rows' : rows'[j] # rows[i]) =>
                 \A k \in DOMAIN rows' :
                    rows'[k].event_time >= rows[i].event_time]_vars

\* Scenario D: capacity 5 after 8 events of increasing hours leaves the 5
\* latest.
C4_Witness ==
    /\ lastOp = "enforce_capacity" /\ cap = 5 /\ ret = 3
    /\ {rows[i].event_time : i \in DOMAIN rows} = 4..8
    /\ Len(rows) = 5

---------------------------------------------------------------------------
(* The specification of the alarm evaluators: events arrive, and every
   evaluator runs over the store *)

MaxSmall == 41
MaxM42 == 10
MaxOther == 2

Row(age, p, m) ==
    [dt |-> utcnow - age, latitude |-> p.latitude,
     longitude |-> p.longitude, magnitude |-> m]

KSmall == Row(1, PFar, 30)
KSmall39 == Row(24, PIn, 39)
KM42 == Row(1, PMid, 42)
KS20 == Row(2, PIn, 20)
KQ46 == Row(24, PMid, 46)
KQ50 == Row(1, PMid, 50)
KM50 == Row(24 * 20, PIn, 50)
KM55 == Row(24 * 14, PIn, 55)
KM58 == Row(24 * 20, PFar, 58)
KM66 == Row(24 * 7, PIn, 66)
KM66Far == Row(24 * 7, PFar, 66)
KOld66 == Row(24 * 40, PIn, 66)
KNoMag == Row(1, PIn, None)
KQ52Far == Row(1, PFar, 52)

OtherKinds == {KS20, KQ46, KQ50, KM50, KM55, KM58, KM66, KM66Far, KOld66,
               KNoMag, KQ52Far}
AlarmKinds == {KSmall, KM42} \cup OtherKinds
ScenarioKinds == {KSmall, KSmall39, KM42}
AllKinds == AlarmKinds \cup ScenarioKinds

Total(B, S) == SumOver(S, B)

\* The evaluation run over the store B.
Evaluated(B) ==
    LET rows_30d == RowsSince(B, 30)
        s == get_alert_summary(rows_30d)
    IN /\ tr' = s.tr
       /\ ba' = s.ba
       /\ al' = compute_alarm_status(B)

InitAlarm ==
    /\ cols = FreshCols \cup {"depth"} /\ rows = <<>> /\ uq = TRUE
    /\ lastOp = "none" /\ ret = 0 /\ cap = 0
    /\ quakes = [k \in AllKinds |-> 0]
    /\ tr = turkey_cluster_alert(NoQuakes)
    /\ ba = bandirma_alert(NoQuakes, BANDIRMA_RADIUS_KM)
    /\ al = compute_alarm_status(NoQuakes)
    /\ feed = NoPage /\ parsed = <<>> /\ sent = NoMessage

\* One more event is stored, and the evaluation runs.
Add(k) ==
    /\ quakes' = [quakes EXCEPT ![k] = @ + 1]
    /\ lastOp' = "add"
    /\ Evaluated(quakes')
    /\ UNCHANGED <<cols, rows, uq, ret, cap, feed, parsed, sent>>

AddSmall == quakes[KSmall] < MaxSmall /\ Add(KSmall)
AddM42 == quakes[KM42] < MaxM42 /\ Add(KM42)
AddOther(k) ==
    /\ Total(quakes, OtherKinds) < MaxOther
    /\ Add(k)

NextAlarm ==
    \/ AddSmall
    \/ AddM42
    \/ \E k \in OtherKinds : AddOther(k)

SpecAlarm == InitAlarm /\ [][NextAlarm]_vars

\* Scenario A: up to MaxSmall events of magnitude 3.0 to 3.9 and up to two of
\* magnitude 4.2, all of the last 24 hours.
AddScenario(k) ==
    /\ k \in {KSmall, KSmall39} =>
          quakes[KSmall] + quakes[KSmall39] < MaxSmall
    /\ k = KM42 => quakes[KM42] < 2
    /\ Add(k)

NextScenarioA == \E k \in ScenarioKinds : AddScenario(k)

SpecScenarioA == InitAlarm /\ [][NextScenarioA]_vars

---------------------------------------------------------------------------
(* Claims about the evaluators *)

\* The stored events of magnitude at least m, of the last `hours` hours (and
\* of the 30 days get_rows_since reads); with `near`, only those within the
\* radius of the Bandirma centre.
QCount(m, hours, near) ==
    Total(quakes,
          {k \in AllKinds :
              /\ k.magnitude # None /\ k.magnitude >= m
              /\ k.dt >= utcnow - hours /\ k.dt >= utcnow - 24 * 30
              /\ near =>
                   haversine_km(k.latitude, k.longitude) <= BANDIRMA_RADIUS_KM})

RedTR ==
    \/ QCount(65, 24 * 7, FALSE) >= 1
    \/ QCount(58, 24 * 30, FALSE) >= 2
    \/ QCount(40, 24, FALSE) >= 10

OrangeTR ==
    \/ QCount(30, 24, FALSE) >= 40 /\ QCount(40, 24, FALSE) >= 1
    \/ QCount(30, 24 * 7, FALSE) >= 25 /\ QCount(40, 24 * 7, FALSE) >= 2
    \/ QCount(50, 24 * 30, FALSE) >= 1

RedBA == QCount(55, 24 * 14, TRUE) >= 1
OrangeBA == QCount(50, 24 * 30, TRUE) >= 1

\* C7: turkey_cluster_alert and bandirma_alert return KIRMIZI exactly when a
\* RED condition matches, TURUNCU exactly when none does and an ORANGE
\* condition matches, YOK exactly when no condition matches.
C7_SeverityPrecedence ==
    /\ tr.status = "KIRMIZI" <=> RedTR
    /\ tr.status = "TURUNCU" <=> (~RedTR /\ OrangeTR)
    /\ tr.status = "YOK" <=> (~RedTR /\ ~OrangeTR)
    /\ ba.status = "KIRMIZI" <=> RedBA
    /\ ba.status = "TURUNCU" <=> (~RedBA /\ OrangeBA)
    /\ ba.status = "YOK" <=> (~RedBA /\ ~OrangeBA)

\* RED and ORANGE conditions of both evaluators match, and both are KIRMIZI.
C7_Witness ==
    /\ RedTR /\ OrangeTR /\ RedBA /\ OrangeBA
    /\ tr.status = "KIRMIZI" /\ ba.status = "KIRMIZI"
    /\ tr.orange_reasons # <<>>

\* The store holds an event of magnitude 6.6 of the last 7 days within 70 km.
HasScenarioBEvent ==
    \E k \in AllKinds :
        /\ quakes[k] >= 1
        /\ k.magnitude = 66
        /\ k.dt >= utcnow - 24 * 7
        /\ haversine_km(k.latitude, k.longitude) <= 70

\* C8: with an event of magnitude 6.6 of the last 7 days within 70 km of
\* Bandirma in the store, turkey_cluster_alert and bandirma_alert both return
\* KIRMIZI, whatever else the store holds.
C8_ScenarioB ==
    HasScenarioBEvent => (tr.status = "KIRMIZI" /\ ba.status = "KIRMIZI")

C8_Witness ==
    /\ HasScenarioBEvent
    /\ quakes[KSmall] > 0 /\ quakes[KOld66] > 0
    /\ tr.status = "KIRMIZI" /\ ba.status = "KIRMIZI"

\* The store holds 41 events of magnitude 3.0 to 3.9 and one of 4.2, all of
\* the last 24 hours, and nothing else.
IsScenarioA ==
    /\ quakes[KSmall] + quakes[KSmall39] = 41
    /\ quakes[KM42] = 1
    /\ Total(quakes, OtherKinds) = 0

\* C9: over 41 events of magnitude 3.0 to 3.9 and one of 4.2, all of the
\* last 24 hours, turkey_cluster_alert returns TURUNCU and lists the reason
\* of the rule count(M>=3.0, 24h) >= 40 and max(24h) >= 4.0.
C9_ScenarioA ==
    IsScenarioA =>
        /\ tr.status = "TURUNCU"
        /\ \E i \in DOMAIN tr.orange_reasons :
              tr.orange_reasons[i] = "24s: M>=3.0 ve maxMag(24s)"

C9_Witness ==
    /\ IsScenarioA /\ quakes[KSmall] > 0 /\ quakes[KSmall39] > 0
    /\ tr.status = "TURUNCU" /\ tr.stats.m3_24 = 42

RankS(status) ==
    CASE status = "YOK" -> 0 [] status = "TURUNCU" -> 1
      [] status = "KIRMIZI" -> 2
RankL(level) ==
    CASE level = "NORMAL" -> 0 [] level = "ORANGE" -> 1 [] level = "RED" -> 2

\* The store that holds the event k alone.
Single(k) == [x \in {k} |-> 1]

\* C10: when one event is added to the store, no evaluator returns a lower
\* level than before, and an evaluator that returns its RED level for the
\* event alone returns it for the store with the event.
C10_MonotonicSeverity ==
    [][\A k \in AllKinds :
        quakes'[k] = quakes[k] + 1 =>
          /\ RankS(tr'.status) >= RankS(tr.status)
          /\ RankS(ba'.status) >= RankS(ba.status)
          /\ RankL(al'.level) >= RankL(al.level)
          /\ turkey_cluster_alert(RowsSince(Single(k), 30)).status = "KIRMIZI"
                => tr'.status = "KIRMIZI"
          /\ bandirma_alert(RowsSince(Single(k), 30),
                            BANDIRMA_RADIUS_KM).status = "KIRMIZI"
                => ba'.status = "KIRMIZI"
          /\ compute_alarm_status(Single(k)).level = "RED"
                => al'.level = "RED"]_vars

\* The combined score alone gives RED, and an event that fires the ORANGE
\* quick trigger has been added.
C10_Witness ==
    /\ quakes[KM42] = 2 /\ quakes[KQ46] = 1
    /\ al.level = "RED" /\ al.quick_trigger = "ORANGE"
    /\ tr.status = "YOK" /\ ba.status = "YOK"

\* A stored event of magnitude at least m, of the last QUICK_HOURS hours,
\* within the radius of main.py.
QuickHit(m) ==
    \E k \in AllKinds :
        /\ quakes[k] > 0
        /\ k.magnitude # None /\ k.magnitude >= m
        /\ k.dt >= utcnow - QUICK_HOURS
        /\ haversine_km(k.latitude, k.longitude) <= MAIN_BANDIRMA_RADIUS_KM

ScoreIsRed == al.combined_score >= ALARM_RED_THRESHOLD * 10000
ScoreIsOrange == al.combined_score >= ALARM_ORANGE_THRESHOLD * 10000

\* C11: compute_alarm_status returns RED when an event of the last
\* QUICK_HOURS hours within the radius has magnitude >= RED_QUICK_MAG; when
\* the largest such magnitude is >= ORANGE_QUICK_MAG and < RED_QUICK_MAG it
\* returns at least ORANGE, and RED exactly when the combined score reaches
\* the RED threshold; with no such event the quick trigger does not fire and
\* the level is that of the combined score.
C11_QuickTrigger ==
    /\ QuickHit(RED_QUICK_MAG) =>
          (al.quick_trigger = "RED" /\ al.level = "RED")
    /\ (QuickHit(ORANGE_QUICK_MAG) /\ ~QuickHit(RED_QUICK_MAG)) =>
          /\ al.quick_trigger = "ORANGE"
          /\ al.level \in {"ORANGE", "RED"}
          /\ al.level = "RED" <=> ScoreIsRed
    /\ ~QuickHit(ORANGE_QUICK_MAG) =>
          /\ al.quick_trigger = "None"
          /\ al.level = "RED" <=> ScoreIsRed
          /\ al.level = "ORANGE" <=> (ScoreIsOrange /\ ~ScoreIsRed)

\* An event fires the ORANGE quick trigger while a larger one of the same
\* day lies outside the radius.
C11_Witness ==
    /\ quakes[KQ46] = 1 /\ quakes[KQ52Far] = 1
    /\ QuickHit(ORANGE_QUICK_MAG) /\ ~QuickHit(RED_QUICK_MAG)
    /\ al.quick_trigger = "ORANGE" /\ al.level = "ORANGE"

---------------------------------------------------------------------------
(* main.py: the normalizer parse_koeri_lst6 *)

\* A token of a line (ln.split()): its text, and what float(), the two
\* regular expressions and strptime make of it. A numeric token carries the
\* value float() gives it in the unit of its column (hundredths of a degree,
\* tenths of a kilometre or of a magnitude); a date carries its day, a time
\* its hour.
Tok(text, kind, val) == [text |-> text, kind |-> kind, val |-> val]
Num(text, val) == Tok(text, "num", val)
Word(text) == Tok(text, "word", 0)

\* float(t) raises ValueError.
TokFloatRaises(t) == t.kind \notin {"num", "nan"}
\* float(t)
TokFloat(t) == IF t.kind = "nan" THEN NaN ELSE t.val

\* ln.lower().startswith("tarih") or ln.startswith("----") or "Date" in ln
IsHeaderLine(parts) ==
    \/ parts[1].text \in {"Tarih", "----------"}
    \/ \E i \in DOMAIN parts : parts[i].text = "Date"

\* x = float(parts[idx]) does not raise and 0.0 <= x <= 10.0 (false of NaN).
MagCandidate(t) ==
    /\ ~TokFloatRaises(t)
    /\ TokFloat(t) # NaN /\ 0 <= TokFloat(t) /\ TokFloat(t) <= 100

\* Variant: the scan starts one token late.
MagIndexes_Late(parts) == 7..Min(Len(parts), 12)

\* range(5, min(len(parts), 12)), as indexes from 1
MagIndexes(parts) == 6..Min(Len(parts), 12)

\* " ".join(parts[8:])
RECURSIVE JoinTexts(_)
JoinTexts(ts) ==
    IF ts = <<>> THEN ""
    ELSE IF Len(ts) = 1 THEN ts[1].text
    ELSE ts[1].text \o " " \o JoinTexts(Tail(ts))

\* The hours between the clock of the feed (UTC+3) and UTC.
TrOffsetHours == 3

\* One pass of the loop over raw_lines: the events the line adds (one, or
\* none when a continue skips it).
ParseLine(parts) ==
    IF IsHeaderLine(parts) THEN <<>>
    ELSE IF Len(parts) < 9 THEN <<>>
    ELSE IF parts[1].kind \notin {"date", "baddate"} THEN <<>>
    ELSE IF parts[2].kind \notin {"time", "badtime"} THEN <<>>
    ELSE IF \/ TokFloatRaises(parts[3]) \/ TokFloatRaises(parts[4])
            \/ TokFloatRaises(parts[5]) THEN <<>>
    ELSE LET hits == {i \in MagIndexes(parts) : MagCandidate(parts[i])}
             location == JoinTexts(SubSeq(parts, 9, Len(parts)))
         IN IF hits = {} THEN <<>>
            ELSE IF parts[1].kind = "baddate" \/ parts[2].kind = "badtime"
            THEN <<>>
            ELSE LET idx == CHOOSE i \in hits : \A j \in hits : i <= j IN
                 <<[event_time |-> parts[1].val * 24 + parts[2].val
                                      - TrOffsetHours,
                    latitude |-> TokFloat(parts[3]),
                    longitude |-> TokFloat(parts[4]),
                    depth_km |-> TokFloat(parts[5]),
                    magnitude |-> TokFloat(parts[idx]),
                    location |-> IF location = "" THEN "-" ELSE location]>>

RECURSIVE ParseLines(_)
ParseLines(raw_lines) ==
    IF raw_lines = <<>> THEN <<>>
    ELSE ParseLine(Head(raw_lines)) \o ParseLines(Tail(raw_lines))

\* parse_koeri_lst6 raises when the page has no <pre>.
ParseRaises(page) == ~page.pre

parse_koeri_lst6(page) == ParseLines(page.raw_lines)

---------------------------------------------------------------------------
(* The specification of the normalizer: a page is fetched, parsed, and its
   events are stored in a new database *)

\* The most tokens a line of the model has.
MaxTokens == 13

DateOk == Tok("2025.04.10", "date", 99)
DateBad == Tok("2025.13.45", "baddate", 0)
TimeOk == Tok("10:00:00", "time", 10)
TimeBad == Tok("25:61:00", "badtime", 0)
TokNaN == Tok("nan", "nan", 0)
Dash == Word("-.-")

DateToks == {DateOk, DateBad, Word("Tarih")}
TimeToks == {TimeOk, TimeBad, Word("Saat")}
LatToks == {Num("40.35", 4035), Num("95.00", 9500), Num("-91.00", -9100),
            TokNaN, Word("4O.35")}
LonToks == {Num("27.97", 2797), Num("181.00", 18100), TokNaN, Word("-")}
DepthToks == {Num("7.0", 70), TokNaN, Dash}
MagToks == {Dash, Num("3.0", 30), Num("4.1", 41), Num("11.0", 110), TokNaN}
LocToks == {Word("A"), Word("Ilksel"), Num("5.2", 52)}

GoodHead == <<DateOk, TimeOk, Num("40.35", 4035), Num("27.97", 2797),
              Num("7.0", 70)>>
GoodTail == <<Dash, Num("3.0", 30), Dash, Word("A"), Word("Ilksel")>>

Heads ==
    {<<d, t, lat, lon, dep>> :
        d \in DateToks, t \in TimeToks, lat \in LatToks, lon \in LonToks,
        dep \in DepthToks}

\* The location tokens of a line: none (a line of 8 tokens), or words and
\* then any token of LocToks.
LocTails ==
    {<<>>} \cup
    {[i \in 1..n |-> IF i < n THEN Word("A") ELSE last] :
        n \in 1..(MaxTokens - 8), last \in LocToks}

Tails == {mags \o loc : mags \in [1..3 -> MagToks], loc \in LocTails}

Lines ==
    {h \o GoodTail : h \in Heads}
    \cup {GoodHead \o t : t \in Tails}
    \cup {GoodHead \o <<Dash, Num("3.0", 30), Dash, Word("Date")>>,
          <<Word("----------")>>}

\* Lines of pages of two lines.
PairLines ==
    {GoodHead \o GoodTail,
     GoodHead \o <<Dash, Dash, Num("4.1", 41), Word("A")>>,
     <<DateOk, TimeOk, Num("95.00", 9500), Num("27.97", 2797), TokNaN>>
        \o GoodTail,
     <<Word("Tarih"), Word("Saat"), Word("Enlem(N)")>>}

Pages ==
    {[pre |-> TRUE, raw_lines |-> <<l>>] : l \in Lines}
    \cup {[pre |-> TRUE, raw_lines |-> <<l1, l2>>] :
             l1 \in PairLines, l2 \in PairLines}
    \cup {[pre |-> TRUE, raw_lines |-> <<>>], NoPage}

\* A new database after init_db, and a page.
InitParse ==
    /\ cols = FreshCols /\ rows = <<>> /\ uq = TRUE
    /\ lastOp = "fetch" /\ ret = 0 /\ cap = 0
    /\ quakes = NoQuakes
    /\ tr = NoResult /\ ba = NoResult /\ al = NoLevel
    /\ feed \in Pages /\ parsed = <<>> /\ sent = NoMessage

\* events = parse_koeri_lst6()
Parse ==
    /\ lastOp = "fetch" /\ ~ParseRaises(feed)
    /\ parsed' = parse_koeri_lst6(feed)
    /\ lastOp' = "parse"
    /\ UNCHANGED <<cols, rows, uq, ret, cap, quakes, tr, ba, al, feed, sent>>

\* parse_koeri_lst6 raises RuntimeError, and the run ends.
ParseFails ==
    /\ lastOp = "fetch" /\ ParseRaises(feed)
    /\ lastOp' = "raised"
    /\ UNCHANGED <<cols, rows, uq, ret, cap, quakes, tr, ba, al, feed,
                   parsed, sent>>

\* inserted = upsert_events(DB_PATH, events)
Store ==
    LET u == upsert_events(cols, uq, rows, parsed) IN
    /\ lastOp = "parse"
    /\ rows' = u.rows /\ ret' = u.inserted
    /\ lastOp' = "upsert"
    /\ UNCHANGED <<cols, uq, cap, quakes, tr, ba, al, feed, parsed, sent>>

NextParse == Parse \/ ParseFails \/ Store

SpecParse == InitParse /\ [][NextParse]_vars

---------------------------------------------------------------------------
(* Claims about the normalizer *)

\* The value is a number between lo and hi.
Within(v, lo, hi) == v \notin {None, NaN, BadNum} /\ lo <= v /\ v <= hi

\* Latitude in [-90, 90], longitude in [-180, 180], magnitude in [0, 10].
ValidRecord(e) ==
    /\ Within(e.latitude, -9000, 9000)
    /\ Within(e.longitude, -18000, 18000)
    /\ Within(e.magnitude, 0, 100)

\* The token is a number between lo and hi.
ValidToken(t, lo, hi) == t.kind = "num" /\ lo <= t.val /\ t.val <= hi

\* The line has a latitude and a longitude in their ranges and a magnitude
\* candidate in [0, 10].
ValidLine(parts) ==
    /\ Len(parts) >= 6
    /\ ValidToken(parts[3], -9000, 9000)
    /\ ValidToken(parts[4], -18000, 18000)
    /\ \E i \in 6..Len(parts) : ValidToken(parts[i], 0, 100)

\* C12: every record parse_koeri_lst6 emits and every row upsert_events
\* stores from it has latitude in [-90, 90], longitude in [-180, 180] and
\* magnitude in [0, 10]; a line whose latitude or longitude is no number or
\* out of range, or with no magnitude candidate, adds no record.
C12_ValidatedRecords ==
    lastOp \in {"parse", "upsert"} =>
        /\ \A i \in DOMAIN parsed : ValidRecord(parsed[i])
        /\ \A i \in DOMAIN rows : ValidRecord(rows[i])
        /\ Len(parsed) <=
              Cardinality({i \in DOMAIN feed.raw_lines :
                              ValidLine(feed.raw_lines[i])})

\* The positions 5..11 of a line, as indexes from 1.
ScanPositions(parts) == {i \in 6..12 : i <= Len(parts)}

\* C14: the record of a line has the depth of token position 4 and the
\* magnitude of the lowest-indexed token of positions 5..11 that is a number
\* in [0.0, 10.0]; a line with no such token adds no record.
C14_MagnitudeSelection ==
    lastOp = "parse" =>
        /\ \A i \in DOMAIN feed.raw_lines :
              LET parts == feed.raw_lines[i]
                  out == ParseLine(parts)
                  ok == {k \in ScanPositions(parts) :
                            ValidToken(parts[k], 0, 100)}
              IN /\ Len(out) <= 1
                 /\ ok = {} => out = <<>>
                 /\ out # <<>> =>
                       /\ parts[5].kind \in {"num", "nan"}
                       /\ out[1].depth_km =
                             (IF parts[5].kind = "nan" THEN NaN
                              ELSE parts[5].val)
                       /\ \E k \in ok :
                             /\ out[1].magnitude = parts[k].val
                             /\ \A j \in ok : k <= j
        /\ Len(feed.raw_lines) = 1 => parsed = ParseLine(feed.raw_lines[1])
        /\ Len(feed.raw_lines) = 2 =>
              parsed = ParseLine(feed.raw_lines[1])
                          \o ParseLine(feed.raw_lines[2])

\* The magnitude columns hold 11.0, nothing and not-a-number, and the record
\* takes its magnitude from a number among the location tokens.
C14_Witness ==
    /\ lastOp = "parse" /\ Len(feed.raw_lines) = 1 /\ Len(parsed) = 1
    /\ feed.raw_lines[1][6] = Num("11.0", 110)
    /\ feed.raw_lines[1][7] = Dash
    /\ feed.raw_lines[1][8] = TokNaN
    /\ Len(feed.raw_lines[1]) = 12
    /\ parsed[1].magnitude = 52 /\ parsed[1].depth_km = 70

---------------------------------------------------------------------------
(* The specification of upsert_events over batches with events that cannot
   be inserted *)

MaxIsoBatch == 3

\* An event without the key latitude, and one whose latitude token was "nan".
EvNoKey ==
    [event_time |-> TNew, longitude |-> PIn.longitude, depth_km |-> 0,
     magnitude |-> 30, location |-> "A"]
EvNaNLat == [EvA EXCEPT !.latitude = NaN]

IsoEvents == {EvA, EvRevised, EvNaNDepth, EvBadLat, EvNoKey, EvNaNLat}
IsoBatches == SeqsUpTo(IsoEvents, MaxIsoBatch)

\* The stores one call of upsert_events leaves in a new database.
IsoStores ==
    {upsert_events(FreshCols, TRUE, <<>>, b).rows :
        b \in SeqsUpTo({EvA, EvRevised, EvNaNDepth}, 2)}

InitUpsert ==
    /\ cols = FreshCols /\ rows \in IsoStores /\ uq = TRUE
    /\ InitRest

\* upsert_events(DB_PATH, events), once.
UpsertBatch(events) ==
    LET u == upsert_events(cols, uq, rows, events) IN
    /\ lastOp = "none"
    /\ parsed' = events
    /\ rows' = u.rows /\ ret' = u.inserted
    /\ lastOp' = "upsert"
    /\ UNCHANGED <<cols, uq, cap, quakes, tr, ba, al, feed, sent>>

NextUpsert == \E events \in IsoBatches : UpsertBatch(events)

SpecUpsert == InitUpsert /\ [][NextUpsert]_vars

\* The event lacks a key the statement reads, or a coordinate, depth or
\* magnitude of it is no number.
Malformed(e) ==
    \/ \E k \in {"event_time", "latitude", "longitude"} : k \notin DOMAIN e
    \/ e.latitude = BadNum \/ e.longitude = BadNum
    \/ e.depth_km = BadNum \/ e.magnitude = BadNum

\* The row of the event would violate a constraint of the table rs: a NOT
\* NULL column without a value, or uq_quake (all six columns equal to those
\* of a stored row, none of them NULL).
ViolatesConstraint(rs, e) ==
    LET p == InsertParams(e) IN
    \/ p.latitude = None \/ p.longitude = None \/ p.event_time = None
    \/ \E i \in DOMAIN rs :
          /\ RowKey(rs[i]) = RowKey(p)
          /\ \A k \in 1..5 : RowKey(p)[k] # None
          /\ p.location # LocNone

\* The events of the batch that cannot be inserted, each judged against the
\* table as the events before it left it.
RECURSIVE FaultyIn(_, _, _)
FaultyIn(rs, events, k) ==
    IF k > Len(events) THEN {}
    ELSE IF Malformed(events[k]) THEN {k} \cup FaultyIn(rs, events, k + 1)
    ELSE IF ViolatesConstraint(rs, events[k])
         THEN {k} \cup FaultyIn(rs, events, k + 1)
         ELSE FaultyIn(Append(rs, InsertParams(events[k])), events, k + 1)

\* The rows of the events of the batch that can be inserted, in their order.
RECURSIVE GoodRows(_, _, _)
GoodRows(events, faulty, k) ==
    IF k > Len(events) THEN <<>>
    ELSE (IF k \in faulty THEN <<>> ELSE <<InsertParams(events[k])>>)
            \o GoodRows(events, faulty, k + 1)

\* C13: a call of upsert_events returns, stores after the old rows exactly
\* the rows of the events that can be inserted, returns their number, and
\* does what it would do on the batch without an event that cannot be
\* inserted.
C13_FaultIsolation ==
    [][lastOp' = "upsert" =>
        LET faulty == FaultyIn(rows, parsed', 1) IN
        /\ rows' = rows \o GoodRows(parsed', faulty, 1)
        /\ ret' = Len(parsed') - Cardinality(faulty)
        /\ \A i \in faulty :
              LET w == upsert_events(cols, uq, rows, RemoveAt(parsed', i))
              IN rows' = w.rows /\ ret' = w.inserted]_vars

\* A batch of a good event, one without a key and another good event, into
\* a store that holds a row: both good events are stored and counted.
C13_Witness ==
    /\ lastOp = "upsert" /\ parsed = <<EvRevised, EvNoKey, EvA>>
    /\ Len(rows) = 3 /\ ret = 2
    /\ rows[2].magnitude = 66 /\ rows[3].magnitude = 30

---------------------------------------------------------------------------
(* turkiye_alarm.py: the lists of bandirma_alert *)

\* Variant: an item goes before the items of its key.
InsertStable_TiesReversed(sorted, x, f) ==
    LET n == Cardinality({i \in DOMAIN sorted : sorted[i][f] > x[f]})
    IN SubSeq(sorted, 1, n) \o <<x>> \o SubSeq(sorted, n + 1, Len(sorted))

\* One more item in a list in descending order of the key f: after the items
\* of a greater or the same key.
InsertStable(sorted, x, f) ==
    LET n == Cardinality({i \in DOMAIN sorted : sorted[i][f] >= x[f]})
    IN SubSeq(sorted, 1, n) \o <<x>> \o SubSeq(sorted, n + 1, Len(sorted))

\* sorted(l, key=lambda x: x[f], reverse=True), and ORDER BY f DESC: the
\* items of one key stay in the order they had.
RECURSIVE StableSortDesc(_, _)
StableSortDesc(l, f) ==
    IF l = <<>> THEN <<>>
    ELSE InsertStable(StableSortDesc(SubSeq(l, 1, Len(l) - 1), f),
                      l[Len(l)], f)

\* [x for x in l if x in S]
RECURSIVE Filter(_, _)
Filter(l, S) ==
    IF l = <<>> THEN <<>>
    ELSE (IF Head(l) \in S THEN <<Head(l)>> ELSE <<>>) \o Filter(Tail(l), S)

\* l[:n]
Take(l, n) == SubSeq(l, 1, Min(n, Len(l)))

\* get_rows_since(days) as the list it returns: the rows since `days` days
\* ago, ORDER BY event_time DESC (rows of one event_time in id order).
get_rows_since_list(rs, days) ==
    LET since == utcnow - 24 * days
        all == [i \in DOMAIN rs |-> RowDict(rs[i])]
    IN StableSortDesc(Filter(all, {x \in {all[i] : i \in DOMAIN all} :
                                      x.dt >= since}), "dt")

\* The rows of a list, as a multiset.
ListToBag(l) ==
    [x \in {l[i] : i \in DOMAIN l} |->
        Cardinality({i \in DOMAIN l : l[i] = x})]

\* bandirma_alert over the list rows_30d: its status and statistics, and
\* orange_top and red_top.
bandirma_alert_list(rows_30d, radius_km) ==
    LET now == utcnow
        all == {rows_30d[i] : i \in DOMAIN rows_30d}
        in_radius(x) == haversine_km(x.latitude, x.longitude) <= radius_km
        r30_in == Filter(rows_30d, {x \in all : in_radius(x)})
        r14_in == Filter(rows_30d, {x \in all : InWindow(x.dt, now, 24 * 14)
                                                  /\ in_radius(x)})
        orange_hits == Filter(r30_in, {x \in all : MagAtLeast(x, 50)})
        red_hits == Filter(r14_in, {x \in all : MagAtLeast(x, 55)})
        b == bandirma_alert(ListToBag(rows_30d), radius_km)
    IN [status |-> b.status, stats |-> b.stats,
        orange_top |-> Take(StableSortDesc(orange_hits, "magnitude"), 5),
        red_top |-> Take(StableSortDesc(red_hits, "magnitude"), 5)]

---------------------------------------------------------------------------
(* The specification of the top lists: events are stored as they happen, and
   bandirma_alert runs over the list get_rows_since returns *)

MaxTopRows == 8

TopQuake(age, p, m) == Quake(utcnow - age, p, 0, m, "A")

\* Hits of the orange rule, two pairs of them of one magnitude and two pairs
\* of one event_time, three of them hits of the red rule; and an event out of
\* the radius and one below 5.0.
TopEvents ==
    {TopQuake(10, PIn, 52), TopQuake(20, PIn, 52), TopQuake(30, PIn, 60),
     TopQuake(24 * 10, PIn, 55), TopQuake(24 * 20, PIn, 58),
     TopQuake(10, PIn, 50), TopQuake(20, PIn, 55),
     TopQuake(5, PMid, 70), TopQuake(15, PIn, 49)}

InitTop ==
    /\ cols = FreshCols \cup {"depth"} /\ rows = <<>> /\ uq = TRUE
    /\ lastOp = "none" /\ ret = 0 /\ cap = 0
    /\ quakes = NoQuakes
    /\ tr = NoResult /\ al = NoLevel
    /\ ba = bandirma_alert_list(<<>>, BANDIRMA_RADIUS_KM)
    /\ feed = NoPage /\ parsed = <<>> /\ sent = NoMessage

\* An event no older than the stored ones is stored, and bandirma_alert runs.
TopStore(e) ==
    LET u == upsert_events(cols, uq, rows, <<e>>) IN
    /\ Len(rows) < MaxTopRows
    /\ \A i \in DOMAIN rows : rows[i].event_time <= e.event_time
    /\ u.inserted = 1
    /\ rows' = u.rows /\ ret' = u.inserted
    /\ lastOp' = "upsert"
    /\ ba' = bandirma_alert_list(get_rows_since_list(rows', 30),
                                 BANDIRMA_RADIUS_KM)
    /\ UNCHANGED <<cols, uq, cap, quakes, tr, al, feed, parsed, sent>>

NextTop == \E e \in TopEvents : TopStore(e)

SpecTop == InitTop /\ [][NextTop]_vars

\* The stored rows of magnitude at least m of the last `days` days within
\* the radius.
TopHits(m, days) ==
    {RowDict(rows[i]) : i \in
        {j \in DOMAIN rows :
            /\ rows[j].magnitude # None /\ rows[j].magnitude >= m
            /\ rows[j].event_time >= utcnow - 24 * days
            /\ haversine_km(rows[j].latitude, rows[j].longitude)
                  <= BANDIRMA_RADIUS_KM}}

\* The list holds min(5, number of hits) different hits, in non-increasing
\* order of magnitude and, within one magnitude, from the most recent on;
\* no hit it omits is greater than one it holds.
IsTopOf(top, hits) ==
    /\ Len(top) = Min(5, Cardinality(hits))
    /\ \A i \in DOMAIN top : top[i] \in hits
    /\ \A i, j \in DOMAIN top : i < j =>
          /\ top[i] # top[j]
          /\ top[i].magnitude >= top[j].magnitude
          /\ top[i].magnitude = top[j].magnitude => top[i].dt >= top[j].dt
    /\ \A x \in hits :
          (\A i \in DOMAIN top : top[i] # x) =>
              \A i \in DOMAIN top : top[i].magnitude >= x.magnitude

\* C15: orange_top and red_top of bandirma_alert hold at most 5 hits, in
\* non-increasing order of magnitude, omit no hit greater than one they
\* hold, and order hits of one magnitude from the most recent on.
C15_TopOrdering ==
    /\ IsTopOf(ba.orange_top, TopHits(50, 30))
    /\ IsTopOf(ba.red_top, TopHits(55, 14))

\* Seven orange hits: five are listed, the two of magnitude 5.5 among them,
\* the more recent first, and of the two of magnitude 5.2 the more recent.
C15_Witness ==
    /\ Cardinality(TopHits(50, 30)) = 7 /\ Len(ba.orange_top) = 5
    /\ ba.orange_top[3].magnitude = 55 /\ ba.orange_top[4].magnitude = 55
    /\ ba.orange_top[3].dt > ba.orange_top[4].dt
    /\ ba.orange_top[5].magnitude = 52 /\ ba.orange_top[5].dt = utcnow - 10
    /\ Len(ba.red_top) = 3

---------------------------------------------------------------------------
(* The specification of the pipeline: runs of main() over the pages the feed
   serves *)

MaxNotifyRows == 3

LineA == GoodHead \o GoodTail
LineRed == GoodHead \o <<Num("5.2", 52), Dash, Dash, Word("B")>>
LineNaNDepth ==
    <<DateOk, TimeOk, Num("40.35", 4035), Num("27.97", 2797), TokNaN>>
        \o GoodTail

NotifyPages ==
    {[pre |-> TRUE, raw_lines |-> l] :
        l \in {<<>>, <<LineA>>, <<LineRed, LineA>>, <<LineA, LineA>>,
               <<LineNaNDepth>>}}
    \cup {NoPage}

InitNotify ==
    /\ cols = {} /\ rows = <<>> /\ uq = FALSE
    /\ InitRest

\* main() to its end: init_db, parse_koeri_lst6, upsert_events, and the
\* message when the run inserted a row or a flag is set.
Run(page, FORCE_TELEGRAM, ALWAYS_TELEGRAM) ==
    LET d == init_db(cols, rows)
        events == parse_koeri_lst6(page)
        u == upsert_events(d.cols, d.uq, d.rows, events)
    IN /\ ~ParseRaises(page)
       /\ Len(u.rows) <= MaxNotifyRows
       /\ feed' = page /\ parsed' = events
       /\ cols' = d.cols /\ uq' = d.uq
       /\ rows' = u.rows /\ ret' = u.inserted
       /\ sent' = Notify(u.inserted, FORCE_TELEGRAM, ALWAYS_TELEGRAM,
                         get_rows_since(u.rows, 90))
       /\ lastOp' = "main"
       /\ UNCHANGED <<cap, quakes, tr, ba, al>>

\* main() when parse_koeri_lst6 raises: init_db has run, nothing else does.
RunRaises(page, FORCE_TELEGRAM, ALWAYS_TELEGRAM) ==
    LET d == init_db(cols, rows) IN
    /\ ParseRaises(page)
    /\ feed' = page /\ parsed' = <<>>
    /\ cols' = d.cols /\ uq' = d.uq /\ rows' = d.rows /\ ret' = 0
    /\ sent' = [sent |-> FALSE, force |-> FORCE_TELEGRAM,
                always |-> ALWAYS_TELEGRAM, level |-> "none"]
    /\ lastOp' = "main_raised"
    /\ UNCHANGED <<cap, quakes, tr, ba, al>>

NextNotify ==
    \E page \in NotifyPages, FORCE_TELEGRAM, ALWAYS_TELEGRAM \in BOOLEAN :
        \/ Run(page, FORCE_TELEGRAM, ALWAYS_TELEGRAM)
        \/ RunRaises(page, FORCE_TELEGRAM, ALWAYS_TELEGRAM)

SpecNotify == InitNotify /\ [][NextNotify]_vars

\* Every event of the feed has its row in the store.
FullyStored(rs, events) ==
    \A i \in DOMAIN events :
        \E j \in DOMAIN rs : RowKey(rs[j]) = RowKey(InsertParams(events[i]))

\* C16: a run of main() that reaches its end sends a message exactly when it
\* inserted a row or FORCE_TELEGRAM or ALWAYS_TELEGRAM is set; with both
\* flags off, a run over a feed whose events are all stored sends nothing.
C16_NotificationPolicy ==
    [][lastOp' = "main" =>
        /\ sent'.sent <=> (ret' > 0 \/ sent'.force \/ sent'.always)
        /\ (~sent'.force /\ ~sent'.always /\ FullyStored(rows, parsed'))
              => ~sent'.sent]_vars

\* The first half of C16 alone.
C16_SentIffInsertedOrFlag ==
    [][lastOp' = "main" =>
        (sent'.sent <=> (ret' > 0 \/ sent'.force \/ sent'.always))]_vars

=============================================================================
